---- MODULE Spec2Model ----
(***************************************************************************)
(* A model of the maxroll crawler (src/scraper/spiders/maxroll.py) and of   *)
(* the offline merge utilities (src/dedupe*.py).                            *)
(*                                                                          *)
(* Strings are modelled as sequences of lexemes: a URL such as              *)
(*   https://maxroll.gg/d4/a#top                                            *)
(* is <<"https", "://", "maxroll.gg", "/", "d4", "/", "a", "#", "top">>.    *)
(* The delimiters that urllib.parse and the spider look for ("://", "/",    *)
(* "?", "#") are lexemes of their own, so splitting, joining, prefix tests  *)
(* and substring tests are computed on the sequence the way the code        *)
(* computes them on the characters.  The empty string is <<>>.              *)
(***************************************************************************)
EXTENDS Integers, Sequences, FiniteSets, Bags, TLC

(***************************************************************************)
(* Bounds of the model                                                      *)
(***************************************************************************)
\* the largest number of anchors (a[href]) on one fetched page
MaxLinks == 2
\* the largest of the small page caps tried (max_pages ranges over
\* 1..MaxSmallCap and the default, "effectively no limit")
MaxSmallCap == 2

(***************************************************************************)
(* Generic helpers on sequences                                             *)
(***************************************************************************)
Range(s) == {s[i] : i \in 1..Len(s)}

\* index of the first element of s that is in toks, 0 when there is none
\* (str.find on a set of delimiters)
FirstIndex(s, toks) ==
  IF \E i \in 1..Len(s) : s[i] \in toks
  THEN CHOOSE i \in 1..Len(s) : s[i] \in toks /\ \A j \in 1..(i - 1) : s[j] \notin toks
  ELSE 0

\* str.startswith
StartsWith(s, p) == Len(p) <= Len(s) /\ SubSeq(s, 1, Len(p)) = p

\* sequences over S of length lo..hi
SeqsOf(S, lo, hi) == UNION {[1..n -> S] : n \in lo..hi}

(***************************************************************************)
(* urllib.parse                                                             *)
(***************************************************************************)
\* str.lower on a lexeme (urlsplit lower-cases the scheme, and only it)
Lower(tok) ==
  CASE tok = "HTTPS" -> "https"
    [] tok = "MAXROLL.GG" -> "maxroll.gg"
    [] OTHER -> tok

\* s around its i-th lexeme: what is before it, what is after it, and s from
\* it on; all of s is before when i = 0 (str.split(sep, 1), str.find)
Cut(s, i) ==
  [before |-> IF i = 0 THEN s ELSE SubSeq(s, 1, i - 1),
   after  |-> IF i = 0 THEN <<>> ELSE SubSeq(s, i + 1, Len(s)),
   from   |-> IF i = 0 THEN <<>> ELSE SubSeq(s, i, Len(s))]

Partition(s, toks) == Cut(s, FirstIndex(s, toks))

\* urlsplit, after scheme and netloc: the fragment is cut at the first "#",
\* then the query at the first "?"
SplitResult(scheme, netloc, qcut, fragment) ==
  [scheme |-> scheme, netloc |-> netloc, path |-> qcut.before, params |-> <<>>,
   query |-> qcut.after, fragment |-> fragment]

split_query(scheme, netloc, fcut) ==
  SplitResult(scheme, netloc, Partition(fcut.before, {"?"}), fcut.after)

split_fragment(scheme, netloc, rest) ==
  split_query(scheme, netloc, Partition(rest, {"#"}))

\* the netloc runs up to the first of "/", "?", "#"
split_netloc(scheme, ncut) == split_fragment(scheme, ncut.before, ncut.from)

\* urlparse(url): the 6-tuple (scheme, netloc, path, params, query, fragment);
\* the scheme is lower-cased, the netloc is not
urlparse(url) ==
  IF Len(url) >= 2 /\ url[2] = "://"
  THEN split_netloc(<<Lower(url[1])>>, Partition(SubSeq(url, 3, Len(url)), {"/", "?", "#"}))
  ELSE split_fragment(<<>>, <<>>, url)

\* urlunparse(parts): an empty query or fragment is written without its
\* delimiter
urlunparse(p) ==
  (IF p.scheme # <<>> THEN p.scheme \o <<"://">> ELSE <<>>)
  \o p.netloc \o p.path
  \o (IF p.query # <<>> THEN <<"?">> \o p.query ELSE <<>>)
  \o (IF p.fragment # <<>> THEN <<"#">> \o p.fragment ELSE <<>>)

\* [part for part in path.split('/') if part]
RECURSIVE SplitSlash(_, _)
SplitSlash(path, cur) ==
  IF path = <<>> THEN (IF cur = <<>> THEN <<>> ELSE <<cur>>)
  ELSE IF Head(path) = "/"
       THEN (IF cur = <<>> THEN <<>> ELSE <<cur>>) \o SplitSlash(Tail(path), <<>>)
       ELSE SplitSlash(Tail(path), Append(cur, Head(path)))

path_parts(url) == SplitSlash(urlparse(url).path, <<>>)

\* '/'.join(parts)
RECURSIVE JoinSlash(_)
JoinSlash(parts) ==
  IF parts = <<>> THEN <<>>
  ELSE IF Len(parts) = 1 THEN parts[1]
  ELSE parts[1] \o <<"/">> \o JoinSlash(Tail(parts))

(***************************************************************************)
(* MaxrollSpider: URL normaliser and scope filter                           *)
(***************************************************************************)
\* max_depth = None
None == -1

\* the default max_pages, "very high number = effectively no limit"
DefaultMaxPages == 10000

\* a normalizer that rebuilds the URL from all of its parts
fragment_kept(parsed) == urlunparse(parsed)

\* MaxrollSpider._normalize_url: the URL rebuilt from its parts, with an
\* empty fragment
without_fragment(parsed) ==
  urlunparse([scheme |-> parsed.scheme, netloc |-> parsed.netloc,
              path |-> parsed.path, params |-> parsed.params,
              query |-> parsed.query, fragment |-> <<>>])

normalize_url(url) == without_fragment(urlparse(url))

\* a rule taken from the end of the seed's path
path_filter_of_last(parts, fdepth) ==
  IF fdepth = 0 \/ parts = <<>> THEN <<>>
  ELSE IF fdepth = 1 THEN parts[Len(parts)]
  ELSE JoinSlash(parts)

\* MaxrollSpider._get_path_filter; None is <<>>
path_filter_of(parts, fdepth) ==
  IF fdepth = 0 THEN <<>>
  ELSE IF fdepth = 1 THEN (IF parts # <<>> THEN parts[1] ELSE <<>>)
  ELSE IF Len(parts) >= fdepth THEN JoinSlash(SubSeq(parts, 1, fdepth))
  ELSE IF parts # <<>> THEN JoinSlash(parts) ELSE <<>>

get_path_filter(url, fdepth) == path_filter_of(path_parts(url), fdepth)

\* a filter that lets every link through
parts_match_any(parts, pfilter, fdepth) == TRUE

\* MaxrollSpider._matches_filter
parts_match(parts, pfilter, fdepth) ==
  IF pfilter = <<>> \/ fdepth = 0 THEN TRUE
  ELSE IF fdepth = 1 THEN parts # <<>> /\ parts[1] = pfilter
  ELSE IF Len(parts) >= fdepth
       THEN JoinSlash(SubSeq(parts, 1, fdepth)) = pfilter
       ELSE StartsWith(pfilter, JoinSlash(parts) \o <<"/">>)
            \/ JoinSlash(parts) = pfilter

matches_filter(url, pfilter, fdepth) == parts_match(path_parts(url), pfilter, fdepth)

(***************************************************************************)
(* The web the spider is run against                                        *)
(***************************************************************************)
Site == <<"https", "://", "maxroll.gg">>
UrlA == Site \o <<"/", "d4", "/", "a">>
UrlB == Site \o <<"/", "d4", "/", "b">>
UrlC == Site \o <<"/", "poe", "/", "c">>
UrlAtop == UrlA \o <<"#", "top">>

\* the values of start_urls tried: a seed carrying a fragment, a second seed
\* outside the first seed's section, two seeds that differ only in a fragment
SeedLists == {<<UrlAtop>>, <<UrlA, UrlC>>, <<UrlAtop, UrlA>>}

\* urljoin(response.url, href) for the anchors a page may carry: the seed
\* page, the seed page with a fragment, another page of the seed's section,
\* a page of another section
LinkTargets == {UrlA, UrlAtop, UrlB, UrlC}

FilterDepths == {0, 1}
MaxDepths == {None, 0, 1}
MaxPages == (1..MaxSmallCap) \cup {DefaultMaxPages}

\* the resources of the site whose response the selectors of parse() raise
\* on (a response that is not text): none, or /d4/b
BrokenSets == {{}, {UrlB}}

\* what the selectors of parse() find in a fetched page; the site is static
\* and the page at /d4/a is the rich one
PlainDom ==
  [title |-> <<"t">>, headings |-> <<>>, paragraphs |-> <<>>, lists |-> <<>>,
   links |-> <<>>, images |-> <<>>, tables |-> <<>>]
RichDom ==
  [title |-> <<"t">>, headings |-> <<[level |-> 1, text |-> <<"h">>]>>,
   paragraphs |-> <<<<"p">>>>, lists |-> <<>>,
   links |-> <<>>, images |-> <<>>, tables |-> <<>>]

\* every URL the crawl is handed, and _normalize_url and the path parts of
\* each (tabulated once)
\* line 308, urljoin(response.url, href): an href that is only a fragment is
\* put behind the URL of the page, an absolute path behind the site, and an
\* href with a scheme of its own is taken as it is
urljoin(base, href) ==
  IF href[1] = "#" THEN Partition(base, {"#"}).before \o href
  ELSE IF href[1] = "/" THEN Site \o href
  ELSE href

\* the hrefs tried on their own: a fragment of the page itself, a page of
\* the section with and without a fragment, a page of another section, a
\* script, a mail address, a document
Hrefs ==
  {<<"#", "top">>, <<"/", "d4", "/", "b", "#", "top">>, <<"/", "d4", "/", "b">>,
   <<"/", "poe", "/", "c">>, <<"javascript:", "e">>, <<"mailto:", "e">>,
   <<"/", "d4", "/", "b", ".pdf">>}

AnchorTargets == {urljoin(page, href) : page \in {UrlA, UrlB, UrlC}, href \in Hrefs}

\* the pages of the sites whose pages are fixed
UrlE == Site \o <<"/", "d4", "/", "e">>
UrlH == Site \o <<"/", "d4", "/", "h">>
UrlT == Site \o <<"/", "d4", "/", "t">>
Pages == {UrlA, UrlB, UrlC, UrlE, UrlH, UrlT}

Urls ==
  LinkTargets \cup UNION {Range(seeds) : seeds \in SeedLists} \cup AnchorTargets \cup Pages
normalized == [u \in Urls |-> normalize_url(u)]
parts_of == [u \in Urls |-> path_parts(u)]

dom_of(url) == IF normalized[url] = UrlA THEN RichDom ELSE PlainDom

(***************************************************************************)
(* State                                                                    *)
(***************************************************************************)
VARIABLES
  \* MaxrollSpider attributes
  start_urls, filter_depth, max_depth, max_pages, path_filter,
  pages_processed, pages_filtered, depth_exceeded, duplicate_urls_skipped,
  urls_found, urls_scraped, collected_data,
  \* the lines of output_file
  output_file,
  \* the site: the resources extraction raises on
  broken,
  \* whether output_file can be opened for writing
  writable,
  \* the engine: requests scheduled and not yet answered (a bag of
  \* [url, depth]); parse() generators suspended at a yield (a bag of
  \* [url, depth, left, at]: the response, its depth, the anchors not yet
  \* iterated, the normalized link the generator yielded); whether closed()
  \* has been called
  pending, active, status,
  \* history, read only by the properties: requests issued per normalized
  \* URL; followable links iterated so far, by class; whether a link was
  \* iterated while another generator was suspended at its yield of the same
  \* link; fetches that failed, per normalized URL; responses extraction
  \* raised on; cap-stopped responses that pass the depth check and are not
  \* broken; calls of the on-close merge
  requested, handed, raced, failed, extract_failed, cap_stopped, merges,
  \* the offline tools (src/dedupe*.py) and the pure functions run on their
  \* own: which one is being run and how far it is; the list loaded from the
  \* input file, the input_url argument (dedupe_compact.py only) and the
  \* verbose flag; the list returned
  tool, loaded_data, input_url, verbose, deduplicated,
  \* two URLs, the keys _normalize_url computes for them and the keys
  \* dedupe.normalize_url computes for them; a seed URL, a filter depth and
  \* a candidate URL, the rule derived from the seed and the verdict on the
  \* candidate
  url_pair, keys, dedupe_keys, seed, fdepth, candidate, rule, verdict,
  \* the anchor the link loop of parse() ran last: the URL of the response
  \* and the href of the anchor; the anchors of each page of a site whose
  \* pages are fixed
  anchor, site

config == <<start_urls, filter_depth, max_depth, max_pages, path_filter, broken, writable>>
counters == <<pages_processed, pages_filtered, depth_exceeded, duplicate_urls_skipped>>
frontier == <<urls_found, urls_scraped>>
engine == <<pending, active, status>>
history == <<requested, handed, raced, failed, extract_failed, cap_stopped, merges>>
crawl == <<config, counters, frontier, collected_data, output_file, engine, history>>
dedupe_run == <<loaded_data, input_url, verbose, deduplicated>>
url_run == <<url_pair, keys, dedupe_keys>>
scope_run == <<seed, fdepth, candidate, rule, verdict>>
link_run == <<anchor, site>>
offline == <<tool, dedupe_run, url_run, scope_run, link_run>>
vars == <<crawl, offline>>

\* a bag holding each element of the sequence once per occurrence
RECURSIVE BagOfSeq(_)
BagOfSeq(s) == IF s = <<>> THEN EmptyBag ELSE SetToBag({Head(s)}) (+) BagOfSeq(Tail(s))

Request(url, depth) == [url |-> url, depth |-> depth]

(***************************************************************************)
(* MaxrollSpider.__init__, and the engine's start requests                  *)
(***************************************************************************)
\* Spider.start_requests: one request per entry of start_urls, not filtered
\* for duplicates, at depth 0
seed_requests(urls) == BagOfSeq([i \in 1..Len(urls) |-> Request(urls[i], 0)])

\* lines 51-55
seed_urls(urls) == {normalized[urls[i]] : i \in 1..Len(urls)}

\* what output_file may hold before the run: nothing, or the line of an
\* earlier run
PriorFiles == {<<>>, <<[url |-> UrlC, title |-> <<"old">>]>>}

\* an open(output_file, 'w') that wrote everything although the open failed
written_regardless(file, w, lines) == lines

\* lines 61-66 and 372-381: open(output_file, 'w') and the writes run inside
\* try/except Exception; when the open fails the error is logged and the
\* file is left as it was
written(file, w, lines) == IF w THEN lines ELSE file

\* MaxrollSpider.__init__ called with one of the given arguments, on a site
\* and a destination as given, followed by the engine's start requests
Constructed(seed_lists, filter_depths, max_depths, caps, broken_sets, writables) ==
  /\ start_urls \in seed_lists
  /\ filter_depth \in filter_depths
  /\ max_depth \in max_depths
  /\ max_pages \in caps
  /\ broken \in broken_sets
  /\ writable \in writables
  /\ path_filter = IF start_urls # <<>> /\ filter_depth > 0
                   THEN get_path_filter(start_urls[1], filter_depth)
                   ELSE <<>>
  /\ pages_processed = 0
  /\ pages_filtered = 0
  /\ depth_exceeded = 0
  /\ duplicate_urls_skipped = 0
  /\ urls_found = seed_urls(start_urls)
  /\ urls_scraped = seed_urls(start_urls)
  /\ collected_data = <<>>
  /\ \E prior \in PriorFiles : output_file = written(prior, writable, <<>>)
  /\ pending = seed_requests(start_urls)
  /\ active = EmptyBag
  /\ status = "running"
  /\ requested = BagOfSeq([i \in 1..Len(start_urls) |-> normalized[start_urls[i]]])
  /\ handed = [filtered |-> 0, duplicate |-> 0, new |-> 0]
  /\ raced = FALSE
  /\ failed = EmptyBag
  /\ extract_failed = {}
  /\ cap_stopped = 0
  /\ merges = 0

\* no offline tool is run
no_dedupe_run ==
  loaded_data = <<>> /\ input_url = <<>> /\ verbose = FALSE /\ deduplicated = <<>>
no_url_run == url_pair = <<>> /\ keys = <<>> /\ dedupe_keys = <<>>
no_scope_run ==
  seed = <<>> /\ fdepth = 0 /\ candidate = <<>> /\ rule = <<>> /\ verdict = FALSE
no_link_run == anchor = <<>> /\ site = <<>>
crawl_only ==
  tool = "none" /\ no_dedupe_run /\ no_url_run /\ no_scope_run /\ no_link_run

\* the crawls explored in full: every combination of arguments, on a
\* destination that can be written
Init ==
  /\ Constructed(SeedLists, FilterDepths, MaxDepths, MaxPages, BrokenSets, {TRUE})
  /\ crawl_only

\* the crawls explored for the start-up: one seed list, the default
\* arguments but for the cap, on a destination that can or cannot be written
StartupInit ==
  /\ Constructed({<<UrlA, UrlC>>}, {1}, {None}, {1, DefaultMaxPages}, {{}}, BOOLEAN)
  /\ crawl_only

(***************************************************************************)
(* MaxrollSpider.parse                                                      *)
(***************************************************************************)
\* the cap check written with > for >=: one page too many is let through
cap_reached_strict == pages_processed > max_pages

\* the cap check counting the records collected instead of the pages counted
cap_reached_on_records == Len(collected_data) >= max_pages

\* line 155: the page-cap check
cap_reached == pages_processed >= max_pages

\* the depth check off by one: a response one level too deep is let through
depth_exceeds_off_by_one(current_depth) ==
  max_depth # None /\ current_depth > max_depth + 1

\* line 163: the depth check
depth_exceeds(current_depth) == max_depth # None /\ current_depth > max_depth

\* lines 184-294: the record built from a response
extract(response_url, dom) ==
  [url |-> response_url,
   title |-> dom.title,
   content |-> [headings |-> dom.headings, paragraphs |-> dom.paragraphs,
                lists |-> dom.lists, links |-> dom.links, images |-> dom.images,
                structured_data |-> <<>>, tables |-> dom.tables,
                code_blocks |-> <<>>],
   metadata |-> <<>>]

\* MaxrollSpider._collect_data
collect_data(data, content) == Append(data, content)

\* a parse() that caught the exception and collected what it had built
extraction_raised_partial(data, response_url) ==
  collect_data(data, extract(response_url, PlainDom))

\* lines 184-297 when a selector raises: parse() has no except clause, so
\* the exception leaves it before _collect_data is reached
extraction_raised(data, response_url) == data

\* lines 315-316: same domain, none of the skip markers anywhere in the URL
SkipMarkers ==
  {"#", "javascript:", "mailto:", ".pdf", ".jpg", ".png", ".gif", ".webp", ".svg"}

followable(full_url) ==
  StartsWith(full_url, Site) /\ Range(full_url) \cap SkipMarkers = {}

\* a link loop that forgot to record the link as discovered
discover_nothing(found, normalized_full_url) == found

\* lines 321-322: record the link as discovered
discover(found, normalized_full_url) == found \cup {normalized_full_url}

\* a link loop that left the marking to the callback of the followed request
mark_scraped_later(scraped, normalized_full_url) == scraped

\* line 333: "Mark URL as scraped before following"
mark_scraped(scraped, normalized_full_url) == scraped \cup {normalized_full_url}

\* line 335: meta={'depth': current_depth + 1}
child_depth(current_depth) == current_depth + 1

\* The frontier as the link loop sees it; yielded holds the request the
\* generator has yielded, if any.
Frontier ==
  [urls_found |-> urls_found, urls_scraped |-> urls_scraped,
   pages_filtered |-> pages_filtered,
   duplicate_urls_skipped |-> duplicate_urls_skipped,
   yielded |-> <<>>]

\* lines 325-338 with the duplicate check moved in front of the scope check
route_link_dedup_first(st, current_depth, full_url, n) ==
  IF n \in st.urls_scraped
  THEN [st EXCEPT !.duplicate_urls_skipped = @ + 1]
  ELSE IF parts_match(parts_of[full_url], path_filter, filter_depth)
       THEN [st EXCEPT !.urls_scraped = mark_scraped(@, n),
                       !.yielded = Append(@, Request(full_url, child_depth(current_depth)))]
       ELSE [st EXCEPT !.pages_filtered = @ + 1]

\* lines 325-338: the link, recorded as discovered, is filtered, skipped as
\* a duplicate, or marked scraped and followed
route_link(st, current_depth, full_url, n) ==
  IF parts_match(parts_of[full_url], path_filter, filter_depth)
  THEN IF n \in st.urls_scraped
       THEN [st EXCEPT !.duplicate_urls_skipped = @ + 1]
       ELSE [st EXCEPT !.urls_scraped = mark_scraped(@, n),
                       !.yielded = Append(@, Request(full_url, child_depth(current_depth)))]
  ELSE [st EXCEPT !.pages_filtered = @ + 1]

\* lines 318-323
discover_link(st, current_depth, full_url, n) ==
  route_link([st EXCEPT !.urls_found = discover(@, n)], current_depth, full_url, n)

\* lines 306-338: one iteration of `for link in response.css('a[href]')`
follow_link(st, current_depth, full_url) ==
  IF ~followable(full_url) THEN st
  ELSE discover_link(st, current_depth, full_url, normalized[full_url])

\* the loop run over the anchors `links`, in order
RECURSIVE follow_links(_, _, _)
follow_links(st, current_depth, links) ==
  IF links = <<>> THEN st
  ELSE follow_links(follow_link(st, current_depth, Head(links)),
                    current_depth, Tail(links))

\* The generator runs from where it is resumed to its next yield or to its
\* end: `links` is such a run over a page with `left` anchors to go iff no
\* anchor before the last one yields, and the last one yields unless it is
\* the page's last anchor.
is_run(current_depth, left, links) ==
  /\ Len(links) <= left
  /\ links # <<>> =>
       follow_links(Frontier, current_depth, SubSeq(links, 1, Len(links) - 1)).yielded = <<>>
  /\ Len(links) < left =>
       follow_links(Frontier, current_depth, links).yielded # <<>>

Generator(response_url, current_depth, left, at) ==
  [url |-> response_url, depth |-> current_depth, left |-> left, at |-> at]

in_scope(u) == parts_match(parts_of[u], path_filter, filter_depth)

\* the branch of lines 325-338 a followable link takes in the current state
link_class(u) ==
  IF ~in_scope(u) THEN "filtered"
  ELSE IF normalized[u] \in urls_scraped THEN "duplicate"
  ELSE "new"

\* the followable links among `links` that take the branch `class`
Handed(links, class) ==
  Cardinality({i \in 1..Len(links) : followable(links[i]) /\ link_class(links[i]) = class})

\* The state after a run that left the frontier as `st`.  `reqs` and `gens`
\* are the requests and the generators other than the one running; it stays
\* among the generators iff it is suspended at a yield, and the request it
\* yielded is scheduled.
after_run(st, yielded_urls, response_url, current_depth, left, reqs, gens) ==
  /\ urls_found' = st.urls_found
  /\ urls_scraped' = st.urls_scraped
  /\ pages_filtered' = st.pages_filtered
  /\ duplicate_urls_skipped' = st.duplicate_urls_skipped
  /\ pending' = reqs (+) BagOfSeq(st.yielded)
  /\ active' = IF yielded_urls # <<>>
               THEN gens (+) SetToBag({Generator(response_url, current_depth, left,
                                                 yielded_urls[1])})
               ELSE gens
  /\ requested' = requested (+) BagOfSeq(yielded_urls)

yielded_urls_of(st) == [i \in 1..Len(st.yielded) |-> normalized[st.yielded[i].url]]

frontier_after_run(st, response_url, current_depth, left, reqs, gens) ==
  after_run(st, yielded_urls_of(st), response_url, current_depth, left, reqs, gens)

\* the history of the links of a run; `ats` are the links the other
\* generators are suspended at
contested(links, ats) ==
  \E i \in 1..Len(links) :
    followable(links[i]) /\ in_scope(links[i]) /\ normalized[links[i]] \in ats

history_after_run(links, gens) ==
  /\ handed' = [filtered |-> handed.filtered + Handed(links, "filtered"),
                duplicate |-> handed.duplicate + Handed(links, "duplicate"),
                new |-> handed.new + Handed(links, "new")]
  /\ raced' = (raced \/ contested(links, {g.at : g \in BagToSet(gens)}))

run_generator(response_url, current_depth, left, links, reqs, gens) ==
  /\ frontier_after_run(follow_links(Frontier, current_depth, links), response_url,
                        current_depth, left - Len(links), reqs, gens)
  /\ history_after_run(links, gens)

\* lines 154-157: the response arrives when the page cap is reached
ParseCapStop(req) ==
  /\ status = "running"
  /\ BagIn(req, pending)
  /\ cap_reached
  /\ pending' = pending (-) SetToBag({req})
  /\ cap_stopped' = cap_stopped +
       (IF (max_depth = None \/ req.depth <= max_depth) /\ normalized[req.url] \notin broken
        THEN 1 ELSE 0)
  /\ UNCHANGED <<offline, config, counters, frontier, collected_data, output_file, active,
                 status, requested, handed, raced, failed, extract_failed, merges>>

\* lines 159-166: the response is deeper than max_depth
ParseDepthStop(req) ==
  /\ status = "running"
  /\ BagIn(req, pending)
  /\ ~cap_reached
  /\ depth_exceeds(req.depth)
  /\ depth_exceeded' = depth_exceeded + 1
  /\ pending' = pending (-) SetToBag({req})
  /\ UNCHANGED <<offline, config, pages_processed, pages_filtered, duplicate_urls_skipped,
                 frontier, collected_data, output_file, active, status, history>>

\* lines 168-294 raise on a broken resource: the page is counted (line 172),
\* the exception leaves parse() before the link loop, and the engine logs it
\* and goes on
ParseExtractError(req) ==
  /\ status = "running"
  /\ BagIn(req, pending)
  /\ ~cap_reached
  /\ ~depth_exceeds(req.depth)
  /\ normalized[req.url] \in broken
  /\ pages_processed' = pages_processed + 1
  /\ collected_data' = extraction_raised(collected_data, req.url)
  /\ pending' = pending (-) SetToBag({req})
  /\ extract_failed' = extract_failed \cup {req.url}
  /\ UNCHANGED <<offline, config, pages_filtered, depth_exceeded, duplicate_urls_skipped,
                 frontier, output_file, active, status, requested, handed, raced,
                 failed, cap_stopped, merges>>

\* lines 168-338: the page is extracted and collected, and the link loop
\* runs to its first yield or to its end
ParsePage(req, anchors, links) ==
  /\ status = "running"
  /\ BagIn(req, pending)
  /\ ~cap_reached
  /\ ~depth_exceeds(req.depth)
  /\ normalized[req.url] \notin broken
  /\ is_run(req.depth, anchors, links)
  /\ pages_processed' = pages_processed + 1
  /\ collected_data' = collect_data(collected_data, extract(req.url, dom_of(req.url)))
  /\ run_generator(req.url, req.depth, anchors, links,
                   pending (-) SetToBag({req}), active)
  /\ UNCHANGED <<offline, config, depth_exceeded, output_file, status, failed,
                 extract_failed, cap_stopped, merges>>

\* line 335 onwards: the engine resumes a generator suspended at its yield
Resume(gen, links) ==
  /\ status = "running"
  /\ BagIn(gen, active)
  /\ is_run(gen.depth, gen.left, links)
  /\ run_generator(gen.url, gen.depth, gen.left, links,
                   pending, active (-) SetToBag({gen}))
  /\ UNCHANGED <<offline, config, pages_processed, depth_exceeded, collected_data,
                 output_file, status, failed, extract_failed, cap_stopped, merges>>

\* parse(response), called by the engine for a response to `req`
parse(req) ==
  \/ ParseCapStop(req)
  \/ ParseDepthStop(req)
  \/ ParseExtractError(req)
  \/ \E anchors \in 0..MaxLinks :
       \E links \in SeqsOf(LinkTargets, 0, anchors) : ParsePage(req, anchors, links)

\* an errback that took the URL out of urls_scraped so that it is retried
on_fetch_failure_unmark(scraped, n) == scraped \ {n}

\* line 335: response.follow(full_url, self.parse, meta=...) names no
\* errback, so a failed fetch leaves urls_scraped as it is
on_fetch_failure(scraped, n) == scraped

\* The fetch of `req` fails (network or HTTP error).  The request was given
\* no errback (line 335): no code of the spider runs.
FetchFailed(req) ==
  /\ status = "running"
  /\ BagIn(req, pending)
  /\ pending' = pending (-) SetToBag({req})
  /\ failed' = failed (+) SetToBag({normalized[req.url]})
  /\ urls_scraped' = on_fetch_failure(urls_scraped, normalized[req.url])
  /\ UNCHANGED <<offline, config, counters, urls_found, collected_data, output_file, active,
                 status, requested, handed, raced, extract_failed, cap_stopped,
                 merges>>

(***************************************************************************)
(* MaxrollSpider._write_sorted_deduplicated_output and closed               *)
(***************************************************************************)
\* the lexemes in ascending order as Python compares the strings
LexemeOrder ==
  <<"#", ".pdf", "/", "://", "?", "HTTPS", "MAXROLL.GG", "a", "b", "c", "d4",
    "e", "h", "https", "maxroll.gg", "p", "poe", "t", "top">>

Rank(tok) == CHOOSE i \in 1..Len(LexemeOrder) : LexemeOrder[i] = tok

\* u < v on strings
RECURSIVE str_less(_, _)
str_less(u, v) ==
  IF v = <<>> THEN FALSE
  ELSE IF u = <<>> THEN TRUE
  ELSE IF Head(u) = Head(v) THEN str_less(Tail(u), Tail(v))
  ELSE Rank(Head(u)) < Rank(Head(v))

\* the elements of `data` at the indices `keep`, in input order
Kept(data, keep) ==
  [k \in 1..Cardinality(keep) |->
     data[CHOOSE i \in keep : Cardinality({j \in keep : j <= i}) = k]]

\* a pass that keeps the last record of each raw URL
unique_by_url_last(data) ==
  Kept(data, {i \in 1..Len(data) :
                \A j \in (i + 1)..Len(data) : data[j].url # data[i].url})

\* lines 360-366: the first record of each raw URL, in input order
unique_by_url(data) ==
  Kept(data, {i \in 1..Len(data) : \A j \in 1..(i - 1) : data[j].url # data[i].url})

\* line 369: list.sort(key=url), stable: a record comes after the records
\* with a smaller URL and after the earlier records with the same URL
sorted_index(data, i) ==
  1 + Cardinality({j \in 1..Len(data) :
                     \/ str_less(data[j].url, data[i].url)
                     \/ data[j].url = data[i].url /\ j < i})

\* a pass that leaves the records in the order they were collected
sort_by_url_skipped(data) == data

sort_by_url(data) ==
  [k \in 1..Len(data) |-> data[CHOOSE i \in 1..Len(data) : sorted_index(data, i) = k]]

\* a merge that returns before it writes
write_nothing(data, file) == file

\* the lines the file holds after the call
write_sorted_deduplicated_output(data, file) ==
  IF data = <<>> THEN file
  ELSE sort_by_url(unique_by_url(data))

\* a closed() that returned without calling the merge
merge_calls_none(n) == n

\* line 396: closed() runs the merge
merge_calls(n) == n + 1

\* The engine calls closed() when the spider is idle: no request is
\* scheduled or in flight and no generator is left to resume.
spider_idle == pending = EmptyBag /\ active = EmptyBag

\* a merge that dropped the duplicates from the collection and sorted it in
\* place
collection_merged_in_place(data) == sort_by_url(unique_by_url(data))

\* lines 359-369: the merge fills and sorts a list of its own, unique_data,
\* and only iterates self.collected_data
collection_after_merge(data) == data

closed ==
  /\ status = "running"
  /\ spider_idle
  /\ output_file' = written(output_file, writable,
                          write_sorted_deduplicated_output(collected_data, output_file))
  /\ collected_data' = collection_after_merge(collected_data)
  /\ merges' = merge_calls(merges)
  /\ status' = "closed"
  /\ UNCHANGED <<offline, config, counters, frontier, pending, active,
                 requested, handed, raced, failed, extract_failed, cap_stopped>>

(***************************************************************************)
(* dedupe.py: the scoring merge run offline on a list of records            *)
(***************************************************************************)
\* the largest number of records in a list handed to an offline tool
MaxRecords == 3

\* a key that keeps the query, as the spider's does
scheme_netloc_path_query(parsed) ==
  parsed.scheme \o <<"://">> \o parsed.netloc \o parsed.path
  \o (IF parsed.query # <<>> THEN <<"?">> \o parsed.query ELSE <<>>)

\* dedupe.normalize_url: f"{scheme}://{netloc}{path}", neither query nor
\* fragment
scheme_netloc_path(parsed) == parsed.scheme \o <<"://">> \o parsed.netloc \o parsed.path

dedupe_normalize_url(url) == scheme_netloc_path(urlparse(url))

\* 'url' in item
has_url(item) == "url" \in DOMAIN item

\* item.get('content', {})
content_of(item) == IF "content" \in DOMAIN item THEN item.content ELSE [none |-> <<>>]

\* content.get(field, [])
field_of(content, field) == IF field \in DOMAIN content THEN content[field] ELSE <<>>

\* str(level), as the f-string writes a heading level
Digits == <<"1", "2", "3", "4", "5", "6">>
Str(level) == Digits[level]

\* line 32: the number of characters of a paragraph that enter the digest
PrefixLen == 100

\* para[:100]
prefix(para) == SubSeq(para, 1, IF Len(para) < PrefixLen THEN Len(para) ELSE PrefixLen)

\* lines 26-27: f"h{level}:{text}\n" for each heading
RECURSIVE heading_lines(_)
heading_lines(headings) ==
  IF headings = <<>> THEN <<>>
  ELSE <<"h", Str(Head(headings).level), ":">> \o Head(headings).text \o <<"\n">>
       \o heading_lines(Tail(headings))

\* lines 31-32: para[:100] + "\n" for each paragraph
RECURSIVE paragraph_lines(_)
paragraph_lines(paragraphs) ==
  IF paragraphs = <<>> THEN <<>>
  ELSE prefix(Head(paragraphs)) \o <<"\n">> \o paragraph_lines(Tail(paragraphs))

\* lines 35-36: the title line, written only when the dict handed in has a
\* 'title' key
title_line(content) ==
  IF "title" \in DOMAIN content THEN <<"title:">> \o content.title \o <<"\n">> ELSE <<>>

\* get_content_hash(content).  The md5 digest is represented by the string
\* it is computed from (md5 is taken to be free of collisions).
get_content_hash(content) ==
  heading_lines(field_of(content, "headings"))
  \o paragraph_lines(field_of(content, "paragraphs"))
  \o title_line(content)

\* lines 91-100: content_score
content_score(item) ==
  Len(field_of(content_of(item), "headings")) * 2
  + Len(field_of(content_of(item), "paragraphs")) * 3
  + Len(field_of(content_of(item), "lists")) * 2
  + Len(field_of(content_of(item), "links"))
  + Len(field_of(content_of(item), "images"))
  + Len(field_of(content_of(item), "tables")) * 5

\* a max() that returns the last of the equal maxima
best_item_last(items) ==
  items[CHOOSE i \in 1..Len(items) :
          /\ \A j \in 1..Len(items) : content_score(items[j]) <= content_score(items[i])
          /\ \A j \in (i + 1)..Len(items) : content_score(items[j]) < content_score(items[i])]

\* line 102: max(items, key=content_score) returns the first of the equal
\* maxima
best_item(items) ==
  items[CHOOSE i \in 1..Len(items) :
          /\ \A j \in 1..Len(items) : content_score(items[j]) <= content_score(items[i])
          /\ \A j \in 1..(i - 1) : content_score(items[j]) < content_score(items[i])]

\* lines 60-65: the indices of the records that have a url, and of those the
\* first of each normalized URL (the keys of url_groups, a dict, are iterated
\* in the order they were inserted)
with_url(list) == {i \in 1..Len(list) : has_url(list[i])}

first_of_group(list) ==
  {i \in with_url(list) :
     \A j \in with_url(list) :
       j < i => dedupe_normalize_url(list[j].url) # dedupe_normalize_url(list[i].url)}

\* url_groups[normalized_url]: the records of one normalized URL, in input
\* order
url_group(list, normalized_url) ==
  Kept(list, {i \in with_url(list) : dedupe_normalize_url(list[i].url) = normalized_url})

\* lines 71-102: the record each group is reduced to, group by group
group_survivors(list) ==
  [k \in 1..Cardinality(first_of_group(list)) |->
     best_item(url_group(list, dedupe_normalize_url(Kept(list, first_of_group(list))[k].url)))]

\* lines 75-83 and 103-111: a survivor is appended unless its digest was
\* already seen
RECURSIVE keep_unseen(_, _)
keep_unseen(items, seen_content_hashes) ==
  IF items = <<>> THEN <<>>
  ELSE IF get_content_hash(content_of(Head(items))) \in seen_content_hashes
       THEN keep_unseen(Tail(items), seen_content_hashes)
       ELSE <<Head(items)>>
            \o keep_unseen(Tail(items),
                           seen_content_hashes \cup {get_content_hash(content_of(Head(items)))})

\* a digest filter that lets every survivor through
unseen_first_off(items) == items

\* line 57: seen_content_hashes starts empty
unseen_first(items) == keep_unseen(items, {})

\* the list deduplicate_data returns
deduplicate_data(list) == unseen_first(group_survivors(list))

\* line 119: the summary divides by len(data); with verbose set (the
\* default) an empty list raises ZeroDivisionError before anything is
\* saved or returned
dedupe_raises(list, is_verbose) == is_verbose /\ Len(list) = 0

(***************************************************************************)
(* dedupe_compact.py: the URL merge restricted to the section of input_url  *)
(***************************************************************************)
\* dedupe_compact.get_path_filter: the first path segment, None (<<>>) when
\* there is none
compact_get_path_filter(url) ==
  IF path_parts(url) # <<>> THEN path_parts(url)[1] ELSE <<>>

\* a filter that keeps the records of every section
compact_matches_any(url, pfilter) == TRUE

\* dedupe_compact.matches_filter
compact_matches_filter(url, pfilter) ==
  IF pfilter = <<>> THEN TRUE
  ELSE path_parts(url) # <<>> /\ path_parts(url)[1] = pfilter

\* lines 64-83: a record without a url is kept; a record with a url is kept
\* when it matches the filter and no earlier matching record has its
\* normalized URL (dedupe_compact.normalize_url is dedupe.normalize_url)
compact_kept(list, pfilter) ==
  {i \in 1..Len(list) :
     has_url(list[i]) =>
       /\ compact_matches_filter(list[i].url, pfilter)
       /\ \A j \in 1..(i - 1) :
            has_url(list[j]) /\ compact_matches_filter(list[j].url, pfilter)
              => dedupe_normalize_url(list[j].url) # dedupe_normalize_url(list[i].url)}

\* x.get('url', '')
url_or_empty(item) == IF has_url(item) THEN item.url ELSE <<>>

\* line 89: list.sort(key=lambda x: x.get('url', '')), stable
compact_sorted_index(list, i) ==
  1 + Cardinality({j \in 1..Len(list) :
                     \/ str_less(url_or_empty(list[j]), url_or_empty(list[i]))
                     \/ url_or_empty(list[j]) = url_or_empty(list[i]) /\ j < i})

compact_sort(list) ==
  [k \in 1..Len(list) |->
     list[CHOOSE i \in 1..Len(list) : compact_sorted_index(list, i) = k]]

\* the list deduplicate_by_url_compact returns
deduplicate_by_url_compact(list, url) ==
  compact_sort(Kept(list, compact_kept(list, compact_get_path_filter(url))))

\* line 98: the summary divides by len(data) when verbose is set
compact_raises(list, is_verbose) == is_verbose /\ Len(list) = 0

(***************************************************************************)
(* dedupe_simple.py: the URL-only merge                                     *)
(***************************************************************************)
\* a loop that dropped the records without a url
simple_kept_having_url(list) == first_of_group(list)

\* lines 37-53: a record without a url is kept; a record with a url is kept
\* when no earlier record has its normalized URL (dedupe_simple.normalize_url
\* is dedupe.normalize_url)
simple_kept(list) ==
  {i \in 1..Len(list) :
     has_url(list[i]) =>
       \A j \in 1..(i - 1) :
         has_url(list[j]) => dedupe_normalize_url(list[j].url) # dedupe_normalize_url(list[i].url)}

\* the list deduplicate_by_url returns
deduplicate_by_url(list) == Kept(list, simple_kept(list))

\* line 61: the summary divides by len(data) when verbose is set
simple_raises(list, is_verbose) == is_verbose /\ Len(list) = 0

\* the records the offline tools are run on: records as parse() builds them
\* (title at the top level, the extracted parts under 'content') and one
\* record that lacks a url
UrlAquery == UrlA \o <<"?", "p">>
TableDom == [PlainDom EXCEPT !.tables = <<<<"c">>, <<"c">>>>]
RetitledDom == [RichDom EXCEPT !.title = <<"e">>]
LongParagraph(last) == [i \in 1..PrefixLen |-> "a"] \o <<last>>
LongDom(last) == [PlainDom EXCEPT !.paragraphs = <<LongParagraph(last)>>]
RecA == extract(UrlA, RichDom)
RecAplain == extract(UrlA, PlainDom)
RecAtables == extract(UrlAtop, TableDom)
RecAquery == extract(UrlAquery, RichDom)
RecB == extract(UrlB, RichDom)
RecBretitled == extract(UrlB, RetitledDom)
RecBlong == extract(UrlB, LongDom("b"))
RecClong == extract(UrlC, LongDom("c"))
RecNoUrl == [title |-> <<"t">>, content |-> extract(UrlC, PlainDom).content]
Records ==
  {RecA, RecAplain, RecAtables, RecAquery, RecB, RecBretitled, RecBlong, RecClong,
   RecNoUrl}

\* the input_url arguments tried: a page of a section, the site's root
InputUrls == {UrlA, Site \o <<"/">>}

\* a spider that was constructed and is not run
crawl_not_run ==
  Constructed({<<UrlA>>}, {1}, {None}, {DefaultMaxPages}, {{}}, {TRUE})

\* dedupe.main: a list is loaded from the input file
DedupInit ==
  /\ crawl_not_run
  /\ tool = "loaded"
  /\ loaded_data \in SeqsOf(Records, 0, MaxRecords)
  /\ input_url \in InputUrls
  /\ verbose \in BOOLEAN
  /\ deduplicated = <<>>
  /\ no_url_run
  /\ no_scope_run
  /\ no_link_run

\* dedupe.main calls deduplicate_data on the loaded list
Deduplicate ==
  /\ tool = "loaded"
  /\ IF dedupe_raises(loaded_data, verbose)
     THEN tool' = "raised" /\ UNCHANGED deduplicated
     ELSE tool' = "deduped" /\ deduplicated' = deduplicate_data(loaded_data)
  /\ UNCHANGED <<crawl, loaded_data, input_url, verbose, url_run, scope_run, link_run>>

\* dedupe.main run once more, on the list the first run returned
DeduplicateAgain ==
  /\ tool = "deduped"
  /\ loaded_data' = deduplicated
  /\ IF dedupe_raises(deduplicated, verbose)
     THEN tool' = "raised again" /\ UNCHANGED deduplicated
     ELSE tool' = "deduped again" /\ deduplicated' = deduplicate_data(deduplicated)
  /\ UNCHANGED <<crawl, input_url, verbose, url_run, scope_run, link_run>>

\* dedupe_compact.main calls deduplicate_by_url_compact on the loaded list
DeduplicateCompact ==
  /\ tool = "loaded"
  /\ IF compact_raises(loaded_data, verbose)
     THEN tool' = "raised" /\ UNCHANGED deduplicated
     ELSE /\ tool' = "compacted"
          /\ deduplicated' = deduplicate_by_url_compact(loaded_data, input_url)
  /\ UNCHANGED <<crawl, loaded_data, input_url, verbose, url_run, scope_run, link_run>>

\* dedupe_simple.main calls deduplicate_by_url on the loaded list
DeduplicateSimple ==
  /\ tool = "loaded"
  /\ IF simple_raises(loaded_data, verbose)
     THEN tool' = "raised" /\ UNCHANGED deduplicated
     ELSE /\ tool' = "simplified"
          /\ deduplicated' = deduplicate_by_url(loaded_data)
  /\ UNCHANGED <<crawl, loaded_data, input_url, verbose, url_run, scope_run, link_run>>

\* MaxrollSpider._write_sorted_deduplicated_output run on the loaded list as
\* its collected_data, a list of records that all have a url: what it writes
MergeCollected ==
  /\ tool = "loaded"
  /\ with_url(loaded_data) = 1..Len(loaded_data)
  /\ tool' = "merged"
  /\ deduplicated' = write_sorted_deduplicated_output(loaded_data, <<>>)
  /\ UNCHANGED <<crawl, loaded_data, input_url, verbose, url_run, scope_run, link_run>>

(***************************************************************************)
(* The two URL normalizers run on pairs of URLs                             *)
(***************************************************************************)
\* the URLs tried: every combination of a scheme and a host in either letter
\* case, a path, a query or none, a fragment or none
Schemes == {"https", "HTTPS"}
Hosts == {"maxroll.gg", "MAXROLL.GG"}
Paths == {<<"/", "d4", "/", "a">>, <<"/", "poe", "/", "c">>}
Queries == {<<>>, <<"?", "p">>, <<"?", "e">>}
Fragments == {<<>>, <<"#", "top">>, <<"#", "e">>}
UrlVariants ==
  {<<sc, "://", ho>> \o pa \o qu \o fr :
     sc \in Schemes, ho \in Hosts, pa \in Paths, qu \in Queries, fr \in Fragments}

UrlInit ==
  /\ crawl_not_run
  /\ no_dedupe_run
  /\ no_scope_run
  /\ no_link_run
  /\ tool = "urls"
  /\ url_pair \in UrlVariants \X UrlVariants
  /\ keys = <<>>
  /\ dedupe_keys = <<>>

\* the spider's identity: self._normalize_url of each of the two
NormalizeUrls ==
  /\ tool = "urls"
  /\ tool' = "normalized"
  /\ keys' = <<normalize_url(url_pair[1]), normalize_url(url_pair[2])>>
  /\ UNCHANGED <<crawl, dedupe_run, url_pair, dedupe_keys, scope_run, link_run>>

\* the offline tools' identity: dedupe.normalize_url of each of the two
DedupeNormalizeUrls ==
  /\ tool = "normalized"
  /\ tool' = "both normalized"
  /\ dedupe_keys' =
       <<dedupe_normalize_url(url_pair[1]), dedupe_normalize_url(url_pair[2])>>
  /\ UNCHANGED <<crawl, dedupe_run, url_pair, keys, scope_run, link_run>>

\* the two URLs fetched as two pages of different content, and the two
\* records handed to deduplicate_data
DeduplicateFetched ==
  /\ tool = "both normalized"
  /\ keys[1] # keys[2]
  /\ tool' = "fetched and deduped"
  /\ loaded_data' = <<extract(url_pair[1], RichDom), extract(url_pair[2], TableDom)>>
  /\ deduplicated' =
       deduplicate_data(<<extract(url_pair[1], RichDom), extract(url_pair[2], TableDom)>>)
  /\ UNCHANGED <<crawl, input_url, verbose, url_run, scope_run, link_run>>

(***************************************************************************)
(* The scope filter run on a seed, a filter depth and a candidate URL       *)
(***************************************************************************)
\* the largest number of path segments of a seed or a candidate, and the
\* largest filter depth
MaxSegments == 3
MaxFilterDepth == 3

\* the URL of the site with the given path segments, with or without a
\* trailing slash
RECURSIVE PathOf(_)
PathOf(segments) ==
  IF segments = <<>> THEN <<>> ELSE <<"/", Head(segments)>> \o PathOf(Tail(segments))

UrlOf(segments, slash) == Site \o PathOf(segments) \o slash

SeedSegments == SeqsOf({"d4", "a"}, 0, MaxSegments)
CandidateSegments == SeqsOf({"d4", "a", "b"}, 0, MaxSegments)
Slashes == {<<>>, <<"/">>}

ScopeInit ==
  /\ crawl_not_run
  /\ no_dedupe_run
  /\ no_url_run
  /\ no_link_run
  /\ tool = "scope"
  /\ seed \in {UrlOf(segments, <<>>) : segments \in SeedSegments}
  /\ fdepth \in 0..MaxFilterDepth
  /\ candidate \in {UrlOf(segments, slash) : segments \in CandidateSegments, slash \in Slashes}
  /\ rule = <<>>
  /\ verdict = FALSE

\* lines 30-34: the rule is derived from the first seed when filter_depth > 0
\* and is None otherwise
DeriveRule ==
  /\ tool = "scope"
  /\ tool' = "ruled"
  /\ rule' = IF fdepth > 0 THEN get_path_filter(seed, fdepth) ELSE <<>>
  /\ UNCHANGED <<crawl, dedupe_run, url_run, link_run, seed, fdepth, candidate, verdict>>

\* self._matches_filter(candidate)
MatchCandidate ==
  /\ tool = "ruled"
  /\ tool' = "matched"
  /\ verdict' = matches_filter(candidate, rule, fdepth)
  /\ UNCHANGED <<crawl, dedupe_run, url_run, link_run, seed, fdepth, candidate, rule>>

(***************************************************************************)
(* The crawl of a site whose pages carry one anchor each                    *)
(***************************************************************************)
LinkInit ==
  /\ Constructed({<<UrlA>>}, FilterDepths, {None}, {DefaultMaxPages}, {{}}, {TRUE})
  /\ tool = "none"
  /\ no_dedupe_run
  /\ no_url_run
  /\ no_scope_run
  /\ no_link_run

\* parse(response) for a response to `req` whose page carries the one anchor
\* `href`: the page is extracted and collected (168-297) and the link loop
\* runs over the anchor (305-338)
ParseOneAnchor(req, href) ==
  /\ status = "running"
  /\ BagIn(req, pending)
  /\ ~cap_reached
  /\ ~depth_exceeds(req.depth)
  /\ anchor' = [page |-> req.url, href |-> href]
  /\ pages_processed' = pages_processed + 1
  /\ collected_data' = collect_data(collected_data, extract(req.url, dom_of(req.url)))
  /\ run_generator(req.url, req.depth, 1, <<urljoin(req.url, href)>>,
                   pending (-) SetToBag({req}), active)
  /\ UNCHANGED <<tool, dedupe_run, url_run, scope_run, site, config, depth_exceeded,
                 output_file, status, failed, extract_failed, cap_stopped, merges>>

(***************************************************************************)
(* The crawl of a site whose pages and anchors are fixed                    *)
(***************************************************************************)
\* the sites: the seed page /d4/a links to /d4/b and /d4/e, the page /d4/t
\* has no anchor, and each other page has no anchor or one anchor, to /d4/h,
\* to /d4/t or to /poe/c
AnchorLists == {<<>>, <<UrlH>>, <<UrlT>>, <<UrlC>>}
Sites ==
  {g \in [Pages -> AnchorLists \cup {<<UrlB, UrlE>>}] :
     /\ g[UrlA] = <<UrlB, UrlE>>
     /\ g[UrlT] = <<>>
     /\ \A page \in Pages \ {UrlA} : g[page] \in AnchorLists}

\* the depth limits tried on these sites
SiteMaxDepths == {None, 1, 2}

SiteInit ==
  /\ Constructed({<<UrlA>>}, FilterDepths, SiteMaxDepths, {DefaultMaxPages}, {{}}, {TRUE})
  /\ tool = "none"
  /\ no_dedupe_run
  /\ no_url_run
  /\ no_scope_run
  /\ anchor = <<>>
  /\ site \in Sites

\* response.css('a[href]') of the page at `url`, resolved
anchors_of(url) == site[normalized[url]]

\* the anchors of the page a generator has still to iterate
anchors_left(gen) ==
  SubSeq(anchors_of(gen.url), Len(anchors_of(gen.url)) - gen.left + 1,
         Len(anchors_of(gen.url)))

\* parse(response) on the site: the response is too deep, or the page is
\* extracted and the link loop runs over its anchors to its first yield or
\* to its end
ParseOnSite(req) ==
  \/ ParseDepthStop(req)
  \/ \E k \in 0..Len(anchors_of(req.url)) :
       ParsePage(req, Len(anchors_of(req.url)), SubSeq(anchors_of(req.url), 1, k))

\* a suspended generator runs on over the anchors it has left
ResumeOnSite(gen) ==
  \E k \in 0..gen.left : Resume(gen, SubSeq(anchors_left(gen), 1, k))

(***************************************************************************)
(* Specifications                                                           *)
(***************************************************************************)
Next ==
  \/ \E req \in BagToSet(pending) : parse(req)
  \/ \E req \in BagToSet(pending) : FetchFailed(req)
  \/ \E gen \in BagToSet(active) :
       \E links \in SeqsOf(LinkTargets, 0, gen.left) : Resume(gen, links)
  \/ closed

Spec == Init /\ [][Next]_vars

\* the engine keeps answering requests, resuming generators and, once idle,
\* closes the spider
FairSpec == Spec /\ WF_vars(Next)

\* the crawl from start-up on, the destination writable or not
StartupSpec == StartupInit /\ [][Next]_vars

DedupNext ==
  \/ Deduplicate
  \/ DeduplicateAgain
  \/ DeduplicateCompact
  \/ DeduplicateSimple
  \/ MergeCollected

\* the offline tools, each run on every list of at most MaxRecords records
DedupSpec == DedupInit /\ [][DedupNext]_vars

UrlNext ==
  \/ NormalizeUrls
  \/ DedupeNormalizeUrls
  \/ DeduplicateFetched

\* the URL identities, each computed for every pair of the URLs tried
UrlSpec == UrlInit /\ [][UrlNext]_vars

ScopeNext ==
  \/ DeriveRule
  \/ MatchCandidate

\* the scope filter, run on every seed, filter depth and candidate tried
ScopeSpec == ScopeInit /\ [][ScopeNext]_vars

LinkNext ==
  \/ \E req \in BagToSet(pending) : \E href \in Hrefs : ParseOneAnchor(req, href)
  \/ \E gen \in BagToSet(active) : Resume(gen, <<>>)
  \/ closed

\* the crawl from one seed over every site whose pages carry one of the
\* hrefs tried
LinkSpec == LinkInit /\ [][LinkNext]_vars

SiteNext ==
  \/ \E req \in BagToSet(pending) : ParseOnSite(req)
  \/ \E gen \in BagToSet(active) : ResumeOnSite(gen)
  \/ closed

\* the crawl of each of the fixed sites, without a page cap and without
\* failures, in every order the engine may answer requests and resume
\* generators in
SiteSpec == SiteInit /\ [][SiteNext]_vars

(***************************************************************************)
(* Properties                                                               *)
(***************************************************************************)
\* the requests scheduled and not yet answered whose URL normalizes to n
PendingFor(n) ==
  BagCardinality([r \in {q \in BagToSet(pending) : normalized[q.url] = n} |-> pending[r]])

\* the fetches of n that have come to an end, with a response or a failure
Fetched(n) == CopiesIn(n, requested) - PendingFor(n)

\* the records collected from responses whose URL normalizes to n
RecordsOf(n) ==
  Cardinality({i \in 1..Len(collected_data) : normalized[collected_data[i].url] = n})

\* this step hands a response to parse(): a request leaves `pending` and no
\* fetch fails
Answers(req) ==
  /\ BagIn(req, pending)
  /\ CopiesIn(req, pending') < CopiesIn(req, pending)
  /\ failed' = failed

\* C1: in every reachable state, after initialisation with the seeds and
\* after any number of parse steps, urls_scraped is a subset of urls_found,
\* hence no larger than it.
C1_ScrapedSubsetOfFound ==
  /\ urls_scraped \subseteq urls_found
  /\ Cardinality(urls_scraped) <= Cardinality(urls_found)

\* a page has been parsed whose links added a URL to both sets and another
\* URL to urls_found only
C1_Witness ==
  /\ handed.new > 0
  /\ handed.filtered > 0
  /\ urls_scraped # urls_found
  /\ Cardinality(urls_scraped) > Cardinality(seed_urls(start_urls))

\* C2: over the whole run each normalized URL is fetched at most once: no
\* normalized URL has had more than one response handed to parse().
C2_FetchedAtMostOnce ==
  \A n \in BagToSet(requested) : Fetched(n) - CopiesIn(n, failed) <= 1

\* the URL of every scheduled or yielded request is in urls_scraped
C3_MarkedWhenYielded ==
  /\ \A r \in BagToSet(pending) : normalized[r.url] \in urls_scraped
  /\ \A g \in BagToSet(active) : g.at \in urls_scraped

\* a step issues a request for n exactly when it moves n into urls_scraped
C3_OneRequestPerMarking ==
  \A n \in urls_scraped' :
    CopiesIn(n, requested') - CopiesIn(n, requested) =
      IF n \notin urls_scraped THEN 1 ELSE 0

\* C3: when branches holding a link to the same not yet scraped in-scope URL
\* interleave, one at its yield included, exactly one of them enqueues the
\* URL: a step issues a request for n exactly when it moves n into
\* urls_scraped, and then issues one; the URL of every scheduled request and
\* of every request a suspended generator has yielded is in urls_scraped by
\* the time another branch can run, so the other branch counts a duplicate.
C3_ExactlyOneEnqueues ==
  [](C3_MarkedWhenYielded) /\ [][C3_OneRequestPerMarking]_vars

\* a link was iterated while another generator was suspended at its yield of
\* the same link; it was counted as a duplicate and the URL requested once
C3_Witness ==
  /\ raced
  /\ duplicate_urls_skipped > 0
  /\ \A n \in BagToSet(requested) \ seed_urls(start_urls) : CopiesIn(n, requested) = 1

\* C4: every link handed to the frontier is discovered, then scope-checked,
\* then duplicate-checked, with exactly one outcome: out of scope, it counts
\* as filtered and is neither marked scraped nor fetched, whatever the sets
\* hold; in scope and scraped, it counts as a duplicate; in scope and not
\* scraped, it is marked scraped and fetched.
C4_OneOutcomePerLink ==
  /\ pages_filtered = handed.filtered
  /\ duplicate_urls_skipped = handed.duplicate
  /\ BagCardinality(requested) - Len(start_urls) = handed.new
  /\ Cardinality(urls_scraped \ seed_urls(start_urls)) = handed.new
  /\ \A n \in urls_scraped \ seed_urls(start_urls) : in_scope(n)
  /\ \A r \in BagToSet(pending) : r.depth > 0 => in_scope(r.url)

\* an out-of-scope link whose normalized URL was already in urls_scraped (the
\* second seed) has been handed over and counted as filtered
C4_Witness ==
  /\ start_urls = <<UrlA, UrlC>>
  /\ filter_depth = 1
  /\ pages_filtered > 0
  /\ duplicate_urls_skipped = 0
  /\ UrlC \in urls_scraped

\* C5: in every reachable state neither pages_processed nor the number of
\* records collected exceeds max_pages; when a response that would have been
\* extracted was turned away at the cap, exactly max_pages pages have been
\* counted by the time the crawl closes, and the collection holds one record
\* for each counted page whose extraction did not raise.
C5_CapBoundsPagesAndRecords ==
  /\ pages_processed <= max_pages
  /\ Len(collected_data) <= pages_processed
  /\ (extract_failed = {}) <=> (Len(collected_data) = pages_processed)
  /\ (status = "closed" /\ cap_stopped > 0) => pages_processed = max_pages

\* the crawl has closed at the cap with extractable responses turned away
\* and a full collection
C5_Witness ==
  /\ status = "closed"
  /\ max_pages = MaxSmallCap
  /\ cap_stopped > 0
  /\ Len(collected_data) = max_pages

\* C5 as stated: whenever the crawl would have extracted more pages than the
\* cap (the records collected and the extractable responses turned away at
\* the cap together exceed it), exactly max_pages records are collected by
\* the time the crawl closes.
C5_ExactlyCapExtracted ==
  /\ pages_processed <= max_pages
  /\ Len(collected_data) <= max_pages
  /\ (status = "closed" /\ Len(collected_data) + cap_stopped > max_pages)
       => Len(collected_data) = max_pages

\* a response handed to parse() at the cap changes nothing but `pending`
C6_StopsAtCapCheck ==
  \A req \in BagToSet(pending) :
    (pages_processed >= max_pages /\ Answers(req)) =>
      /\ collected_data' = collected_data
      /\ pages_processed' = pages_processed
      /\ urls_found' = urls_found
      /\ urls_scraped' = urls_scraped
      /\ requested' = requested
      /\ pending' = pending (-) SetToBag({req})
      /\ active' = active
      /\ status' = "running"

\* C6: once pages_processed has reached max_pages, a response handed to
\* parse() ends at the cap check: no record is appended, no page counted,
\* nothing is added to urls_found or urls_scraped, no request is scheduled
\* and no generator is left behind; the requests in flight are all answered
\* and the crawl reaches Closed.
C6_CooperativeCancellation ==
  /\ [][C6_StopsAtCapCheck]_vars
  /\ (pages_processed >= max_pages) ~> (status = "closed" /\ pending = EmptyBag)

\* responses arrived after the cap was reached, and the crawl has closed
C6_Witness ==
  /\ status = "closed"
  /\ pages_processed = max_pages
  /\ cap_stopped > 0
  /\ Fetched(UrlB) + Fetched(UrlC) > 0

\* this step hands parse() a response deeper than max_depth
AnswersTooDeep(req) == Answers(req) /\ max_depth # None /\ req.depth > max_depth

\* the requests scheduled by this step are one level below the response or
\* the generator the step ran
C7_ChildOneDeeper ==
  \A r \in BagToSet(pending') :
    CopiesIn(r, pending') > CopiesIn(r, pending) =>
      \/ \E req \in BagToSet(pending) : Answers(req) /\ r.depth = req.depth + 1
      \/ \E gen \in BagToSet(active) :
           CopiesIn(gen, active') < CopiesIn(gen, active) /\ r.depth = gen.depth + 1

\* a response deeper than max_depth is not extracted and none of its links
\* is discovered or fetched
C7_TooDeepNotExtracted ==
  \A req \in BagToSet(pending) :
    AnswersTooDeep(req) =>
      /\ collected_data' = collected_data
      /\ pages_processed' = pages_processed
      /\ urls_found' = urls_found
      /\ urls_scraped' = urls_scraped
      /\ requested' = requested
      /\ pending' = pending (-) SetToBag({req})
      /\ active' = active

\* a response deeper than max_depth is counted iff it arrives below the cap,
\* and depth_exceeded changes in no other step
C7_CountedBelowCap ==
  /\ \A req \in BagToSet(pending) :
       AnswersTooDeep(req) =>
         depth_exceeded' = depth_exceeded + (IF pages_processed < max_pages THEN 1 ELSE 0)
  /\ depth_exceeded' # depth_exceeded =>
       \E req \in BagToSet(pending) : AnswersTooDeep(req)

\* C7: seeds are requested at depth 0 and every request a link
\* schedules carries the depth of its page plus one; when max_depth is set,
\* a response deeper than max_depth is never extracted and none of its links
\* is discovered or fetched, and it adds exactly one to depth_exceeded
\* provided it arrives while pages_processed is below max_pages (a response
\* arriving at the cap ends at the cap check and is not counted);
\* depth_exceeded changes in no other step.
C7_DepthLimit ==
  /\ [](status = "running" /\ requested = BagOfSeq([i \in 1..Len(start_urls) |->
                                                      normalized[start_urls[i]]])
          => \A r \in BagToSet(pending) : r.depth = 0)
  /\ [][C7_ChildOneDeeper /\ C7_TooDeepNotExtracted /\ C7_CountedBelowCap]_vars

\* with max_depth = 1 a response at depth 2 has been counted and not
\* extracted
C7_Witness ==
  /\ max_depth = 1
  /\ depth_exceeded > 0
  /\ Fetched(UrlC) = 1
  /\ RecordsOf(UrlC) = 0
  /\ CopiesIn(UrlC, failed) = 0
  /\ UrlC \notin seed_urls(start_urls)

\* a response deeper than max_depth always adds one to depth_exceeded
C7_Step ==
  \A req \in BagToSet(pending) :
    AnswersTooDeep(req) => depth_exceeded' = depth_exceeded + 1

\* C7 as stated: every response deeper than max_depth adds exactly one to
\* depth_exceeded.
C7_EveryTooDeepCounted ==
  [][C7_ChildOneDeeper /\ C7_TooDeepNotExtracted /\ C7_Step]_vars

\* the merge runs in the step that closes the idle spider, and only there
C8_MergeAtClose ==
  (merges' # merges) =>
     /\ spider_idle
     /\ merges = 0 /\ merges' = 1
     /\ status = "running" /\ status' = "closed"
     /\ collected_data' = collected_data

\* C8: under fair scheduling the crawl reaches Closed, with no request
\* pending and no generator left; the merge runs exactly once, in the step
\* that closes the spider, when the last branch has finished, and the file
\* then holds the merged collection.
C8_ClosesAndMergesOnce ==
  /\ <>(status = "closed")
  /\ [](merges <= 1)
  /\ []((status = "closed") <=> (merges = 1))
  /\ [](status = "closed" =>
          /\ spider_idle
          /\ output_file = write_sorted_deduplicated_output(collected_data, <<>>))
  /\ [][C8_MergeAtClose]_vars

\* a crawl that followed links and collected several pages has closed
C8_Witness ==
  /\ status = "closed"
  /\ merges = 1
  /\ handed.new > 0
  /\ Len(collected_data) >= 2
  /\ Len(output_file) >= 2

\* both sets only grow, and a failed URL is not requested again
C9_SetsGrow ==
  /\ urls_found \subseteq urls_found'
  /\ urls_scraped \subseteq urls_scraped'
  /\ \A n \in BagToSet(failed) : CopiesIn(n, requested') = CopiesIn(n, requested)
  /\ failed' # failed => (status' = "running" /\ collected_data' = collected_data)

\* a failed URL stays in urls_scraped, and a failed fetch leaves no record
C9_FailedStaysScraped ==
  /\ \A n \in BagToSet(failed) : n \in urls_scraped
  /\ \A n \in BagToSet(requested) : RecordsOf(n) + CopiesIn(n, failed) <= Fetched(n)

C10_ErrorStep ==
  (extract_failed' # extract_failed) =>
     /\ collected_data' = collected_data
     /\ status' = "running"
     /\ active' = active
     /\ BagCardinality(pending') = BagCardinality(pending) - 1
     /\ urls_found' = urls_found /\ urls_scraped' = urls_scraped

\* no record of a page extraction raised on is in the collection
C10_NoRecordOfFailedPage ==
  \A i \in 1..Len(collected_data) :
    /\ collected_data[i].url \notin extract_failed
    /\ normalized[collected_data[i].url] \notin broken

\* C10: an extraction error stays with its page: the page adds nothing to
\* the collection (no record of it, partial or otherwise, is ever
\* collected), the crawl stays running, the other requests and generators
\* are left as they were and are still processed, and the crawl closes with
\* its merge.
C10_ExtractionErrorContained ==
  /\ [][C10_ErrorStep]_vars
  /\ [](C10_NoRecordOfFailedPage)
  /\ (extract_failed # {}) ~> (status = "closed" /\ merges = 1 /\ pending = EmptyBag)

\* extraction raised on one page; the crawl went on, collected other pages
\* and closed
C10_Witness ==
  /\ status = "closed"
  /\ merges = 1
  /\ extract_failed = {UrlB}
  /\ pages_processed = Len(collected_data) + 1
  /\ Len(collected_data) >= 2
  /\ Len(output_file) >= 1

\* an unwritable destination is never changed
C11_DestinationUntouched == ~writable => output_file' = output_file

\* C11: if the output destination cannot be written at start-up, the error
\* is logged and the crawl starts all the same: the start requests are
\* scheduled, pages are fetched and extracted as on a writable destination,
\* and the write attempted at close fails the same way, leaving the
\* destination as it was.
C11_CrawlsWithoutDestination ==
  /\ [](~writable =>
          /\ output_file \in PriorFiles
          /\ BagCardinality(requested) >= Len(start_urls)
          /\ Len(collected_data) + cap_stopped + BagCardinality(failed)
               + BagCardinality(pending) >= Len(start_urls)
          /\ (status = "closed" => merges = 1))
  /\ [][C11_DestinationUntouched]_vars

\* on an unwritable destination that held a line of an earlier run, the
\* crawl extracted pages and closed, and the destination still holds that
\* line
C11_Witness ==
  /\ ~writable
  /\ status = "closed"
  /\ Len(collected_data) >= 2
  /\ output_file # <<>>
  /\ output_file # write_sorted_deduplicated_output(collected_data, <<>>)

\* C11 as stated: on an unwritable destination the crawl does not start, no
\* page is fetched or extracted.
C11_CrawlDoesNotStart ==
  ~writable =>
     /\ pages_processed = 0
     /\ collected_data = <<>>
     /\ \A n \in BagToSet(requested) : Fetched(n) = 0

\* the record of `list` that its group (the records of `list` with the
\* normalized URL of list[i]) is reduced to is list[i]: none of the group
\* scores higher and none before it scores as high
FirstBestOfGroup(list, i) ==
  \A j \in with_url(list) :
    dedupe_normalize_url(list[j].url) = dedupe_normalize_url(list[i].url)
      => /\ content_score(list[j]) <= content_score(list[i])
         /\ j < i => content_score(list[j]) < content_score(list[i])

\* C12: the list deduplicate_data returns holds at most one record per
\* normalized URL, and each of its records is, of the input records with its
\* normalized URL, the first of those with the highest score
\* (2 headings + 3 paragraphs + 2 lists + links + images + 5 tables)
C12_OneBestPerUrl ==
  tool = "deduped" =>
    /\ \A i, j \in 1..Len(deduplicated) :
         i # j => dedupe_normalize_url(deduplicated[i].url)
                    # dedupe_normalize_url(deduplicated[j].url)
    /\ \A k \in 1..Len(deduplicated) :
         \E i \in with_url(loaded_data) :
           loaded_data[i] = deduplicated[k] /\ FirstBestOfGroup(loaded_data, i)

\* a group of three with two equal maxima: the first of the two is returned
C12_Witness ==
  /\ tool = "deduped"
  /\ loaded_data = <<RecAplain, RecAquery, RecA>>
  /\ deduplicated = <<RecAquery>>

\* the digest of a record of a list, as deduplicate_data takes it
DigestOf(item) == get_content_hash(content_of(item))

\* the position of the group of list[i] in the iteration over url_groups:
\* the index of the first record with the normalized URL of list[i]
GroupStart(list, i) ==
  CHOOSE j \in first_of_group(list) :
    dedupe_normalize_url(list[j].url) = dedupe_normalize_url(list[i].url)

\* the indices of the records the groups of `list` are reduced to
Survivors(list) == {i \in with_url(list) : FirstBestOfGroup(list, i)}

\* the same title, the same headings and the same first PrefixLen characters
\* of each paragraph
SameDigestParts(r, q) ==
  /\ r.title = q.title
  /\ r.content.headings = q.content.headings
  /\ Len(r.content.paragraphs) = Len(q.content.paragraphs)
  /\ \A k \in 1..Len(r.content.paragraphs) :
       prefix(r.content.paragraphs[k]) = prefix(q.content.paragraphs[k])

\* C13: of the records the groups are reduced to, the returned list holds
\* exactly those that no group iterated earlier was reduced to a record of
\* the same digest; so of two such records with different URLs and the same
\* title, headings and paragraph prefixes exactly the one iterated first is
\* returned, and no two returned records have the same digest
C13_FirstOfEachDigest ==
  tool = "deduped" =>
    /\ \A i \in Survivors(loaded_data) :
         (\E k \in 1..Len(deduplicated) : deduplicated[k] = loaded_data[i])
           <=> ~ \E j \in Survivors(loaded_data) :
                   /\ GroupStart(loaded_data, j) < GroupStart(loaded_data, i)
                   /\ DigestOf(loaded_data[j]) = DigestOf(loaded_data[i])
    /\ \A i, j \in Survivors(loaded_data) :
         /\ GroupStart(loaded_data, i) < GroupStart(loaded_data, j)
         /\ SameDigestParts(loaded_data[i], loaded_data[j])
         => \A k \in 1..Len(deduplicated) : deduplicated[k] # loaded_data[j]
    /\ \A k, l \in 1..Len(deduplicated) :
         k # l => DigestOf(deduplicated[k]) # DigestOf(deduplicated[l])

\* two pages whose one paragraph differs after its first PrefixLen
\* characters: the second is dropped
C13_Witness ==
  /\ tool = "deduped"
  /\ loaded_data = <<RecBlong, RecClong>>
  /\ deduplicated = <<RecBlong>>

\* C14: the digest is determined by the headings, the paragraph prefixes
\* and the title: of the records the groups are reduced to, two that agree
\* on headings and paragraph prefixes and differ in the title have different
\* digests and are both returned
C14_TitleEntersDigest ==
  tool = "deduped" =>
    \A i, j \in Survivors(loaded_data) :
      /\ loaded_data[i].content.headings = loaded_data[j].content.headings
      /\ paragraph_lines(loaded_data[i].content.paragraphs)
           = paragraph_lines(loaded_data[j].content.paragraphs)
      /\ loaded_data[i].title # loaded_data[j].title
      => /\ DigestOf(loaded_data[i]) # DigestOf(loaded_data[j])
         /\ \E k \in 1..Len(deduplicated) : deduplicated[k] = loaded_data[i]
         /\ \E k \in 1..Len(deduplicated) : deduplicated[k] = loaded_data[j]

\* C15: deduplicate_data run on the list it returned returns that list
\* again, the same records in the same order
C15_Idempotent ==
  /\ tool # "raised again"
  /\ tool = "deduped again" => deduplicated = loaded_data

\* the records of a list are in ascending order of their raw URLs
SortedByUrl(list) ==
  \A k \in 1..(Len(list) - 1) :
    \/ str_less(url_or_empty(list[k]), url_or_empty(list[k + 1]))
    \/ url_or_empty(list[k]) = url_or_empty(list[k + 1])

\* the index of the first record of `list` with the normalized URL of `url`
FirstWithKeyOf(list, url) ==
  CHOOSE j \in first_of_group(list) :
    dedupe_normalize_url(list[j].url) = dedupe_normalize_url(url)

\* C16: the list the spider's on-close merge writes and the list
\* deduplicate_by_url_compact returns are in ascending order of the records'
\* raw URLs; the list deduplicate_data returns is in the order in which the
\* normalized URLs of its records first occur in the input
C16_SortedExceptScoringMerge ==
  /\ tool \in {"merged", "compacted"} => SortedByUrl(deduplicated)
  /\ tool = "deduped" =>
       \A k \in 1..(Len(deduplicated) - 1) :
         FirstWithKeyOf(loaded_data, deduplicated[k].url)
           < FirstWithKeyOf(loaded_data, deduplicated[k + 1].url)

\* three records collected out of order, written in order of their URLs
C16_Witness ==
  /\ tool = "merged"
  /\ loaded_data = <<RecB, RecAquery, RecA>>
  /\ deduplicated = <<RecA, RecAquery, RecB>>

\* C16 as stated: the list every one of the merge passes produces is in
\* ascending order of the records' raw URLs
C16_SortedByRawUrl ==
  tool \in {"merged", "compacted", "deduped"} => SortedByUrl(deduplicated)

\* the two strings are the same up to their first "#"
SameUpToFragment(u, v) == Partition(u, {"#"}).before = Partition(v, {"#"}).before

\* the two strings are the same but for the letter case of the lexemes at
\* the given positions (1 is the scheme, 3 the host)
SameButCaseAt(u, v, positions) ==
  /\ Len(u) = Len(v)
  /\ \A k \in 1..Len(u) :
       IF k \in positions THEN Lower(u[k]) = Lower(v[k]) ELSE u[k] = v[k]

\* C17: _normalize_url gives the same key to two URLs that differ only in
\* their fragment or only in the letter case of the scheme; it keeps the
\* host as written, so two URLs whose hosts differ in letter case get
\* different keys
C17_FragmentAndSchemeCase ==
  tool = "normalized" =>
    /\ SameUpToFragment(url_pair[1], url_pair[2]) => keys[1] = keys[2]
    /\ SameButCaseAt(url_pair[1], url_pair[2], {1}) => keys[1] = keys[2]
    /\ url_pair[1][3] # url_pair[2][3] => keys[1] # keys[2]

\* a URL with a fragment and the same URL without it
C17_Witness ==
  /\ tool = "normalized"
  /\ url_pair = <<UrlAtop, UrlA>>
  /\ keys = <<UrlA, UrlA>>

\* C17 as stated: the same key for two URLs that differ only in their
\* fragment, or only in the letter case of scheme and host
C17_FragmentAndSchemeHostCase ==
  tool = "normalized" =>
    /\ SameUpToFragment(url_pair[1], url_pair[2]) => keys[1] = keys[2]
    /\ SameButCaseAt(url_pair[1], url_pair[2], {1, 3}) => keys[1] = keys[2]

\* the same scheme, host and path, and different query strings
DifferInQuery(u, v) ==
  /\ urlparse(u).scheme = urlparse(v).scheme
  /\ urlparse(u).netloc = urlparse(v).netloc
  /\ urlparse(u).path = urlparse(v).path
  /\ urlparse(u).query # urlparse(v).query

\* C18: the frontier's key keeps the query string and the key of the offline
\* URL-level dedup drops it: two URLs with equal scheme, host and path and
\* different query strings are two keys in the frontier and one key in the
\* dedup pass, which reduces the two pages fetched to one record; URLs with
\* the same frontier key have the same dedup key
C18_DedupKeyCoarser ==
  /\ tool = "both normalized" =>
       /\ DifferInQuery(url_pair[1], url_pair[2])
            => keys[1] # keys[2] /\ dedupe_keys[1] = dedupe_keys[2]
       /\ keys[1] = keys[2] => dedupe_keys[1] = dedupe_keys[2]
  /\ tool = "fetched and deduped" =>
       Len(deduplicated) = IF dedupe_keys[1] = dedupe_keys[2] THEN 1 ELSE 2

\* a page and the same page with a query, fetched as two pages and merged
\* into one record
C18_Witness ==
  /\ tool = "fetched and deduped"
  /\ url_pair = <<UrlA, UrlAquery>>
  /\ keys[1] # keys[2]
  /\ deduplicated = <<extract(UrlAquery, TableDom)>>

\* C18 as stated: the two identities are the same and keep the query, and
\* two pages the frontier fetched as different are never merged
C18_OneIdentity ==
  /\ tool = "both normalized" =>
       /\ DifferInQuery(url_pair[1], url_pair[2])
            => keys[1] # keys[2] /\ dedupe_keys[1] # dedupe_keys[2]
       /\ keys[1] = keys[2] <=> dedupe_keys[1] = dedupe_keys[2]
  /\ tool = "fetched and deduped" => Len(deduplicated) = 2

\* the path segments the seed and the candidate were built from
SegmentsOfSeed == CHOOSE segments \in SeedSegments : seed = UrlOf(segments, <<>>)

SegmentsOfCandidate ==
  CHOOSE segments \in CandidateSegments : \E slash \in Slashes : candidate = UrlOf(segments, slash)

\* C19: with filter depth 1 the rule is the first path segment of the seed,
\* and a candidate is in scope exactly when it has a first path segment
\* equal to the rule; with a null rule (filter depth 0, or a seed without
\* path segments) every candidate is in scope
C19_FirstSegmentRule ==
  /\ tool \in {"ruled", "matched"} =>
       /\ fdepth = 1 /\ SegmentsOfSeed # <<>> => rule = <<SegmentsOfSeed[1]>>
       /\ fdepth = 0 \/ SegmentsOfSeed = <<>> => rule = <<>>
  /\ tool = "matched" =>
       /\ fdepth = 1 /\ rule # <<>> =>
            (verdict <=> /\ SegmentsOfCandidate # <<>>
                         /\ <<SegmentsOfCandidate[1]>> = rule)
       /\ rule = <<>> => verdict

\* a page of the seed's section is in scope
C19_Witness ==
  /\ tool = "matched"
  /\ fdepth = 1
  /\ seed = UrlA
  /\ candidate = UrlOf(<<"d4", "b">>, <<"/">>)
  /\ rule = <<"d4">>
  /\ verdict

\* the segments of the rule: the first fdepth segments of the seed, all of
\* them when the seed has fewer
RuleSegments ==
  SubSeq(SegmentsOfSeed, 1,
         IF Len(SegmentsOfSeed) < fdepth THEN Len(SegmentsOfSeed) ELSE fdepth)

\* C20: with filter depth d >= 2 and a rule, the rule is the seed's first d
\* segments (all of them when it has fewer) joined by "/", and a candidate is
\* in scope exactly when it has at least d segments and its first d are the
\* rule's, or it has fewer than d segments and they are a prefix of the
\* rule's; a candidate without segments included
C20_PrefixRule ==
  /\ tool \in {"ruled", "matched"} /\ fdepth >= 2 /\ SegmentsOfSeed # <<>> =>
       rule = Tail(PathOf(RuleSegments))
  /\ tool = "matched" /\ fdepth >= 2 /\ rule # <<>> =>
       (verdict <=>
          \/ /\ Len(SegmentsOfCandidate) >= fdepth
             /\ SubSeq(SegmentsOfCandidate, 1, fdepth) = RuleSegments
          \/ /\ Len(SegmentsOfCandidate) < fdepth
             /\ StartsWith(RuleSegments, SegmentsOfCandidate))

\* the URL the last anchor resolved to
Resolved == urljoin(anchor.page, anchor.href)

\* an anchor the claim lets the link loop discard: only a fragment, a
\* script or a mail address, or a document or an image
Discardable(href) ==
  \/ href[1] \in {"#", "javascript:", "mailto:"}
  \/ href[Len(href)] \in {".pdf", ".jpg", ".png", ".gif", ".webp", ".svg"}

\* the link loop has just run over an anchor that is not discardable
C21_RanOverPageLink ==
  /\ pages_processed' = pages_processed + 1
  /\ ~Discardable(anchor'.href)
  /\ StartsWith(urljoin(anchor'.page, anchor'.href), Site)

\* C21: an anchor to a page of the site that is not only a fragment, not a
\* script or a mail address and not a document is handed on, a fragment
\* behind the page or not: its page is recorded as discovered and, when it
\* is in scope and was not yet scraped, marked scraped and requested
C21_PageLinkHandedOn ==
  [][C21_RanOverPageLink =>
       /\ normalized[urljoin(anchor'.page, anchor'.href)] \in urls_found'
       /\ in_scope(urljoin(anchor'.page, anchor'.href))
            => normalized[urljoin(anchor'.page, anchor'.href)] \in urls_scraped']_vars

\* the file changes only in the step that closes the spider
C22_WrittenInClosingStep ==
  output_file' # output_file => status = "running" /\ status' = "closed"

\* C22: the file is empty from the start of the crawl until the spider
\* closes (nothing is written during traversal); it is written once, in the
\* closing step, which the crawl reaches, and then holds one line for each
\* URL collected, each line a collected record
C22_EmptyUntilWrittenAtClose ==
  /\ [](status = "running" => output_file = <<>>)
  /\ [][C22_WrittenInClosingStep]_vars
  /\ <>(status = "closed")
  /\ [](status = "closed" =>
          /\ Len(output_file) = Cardinality({collected_data[i].url : i \in 1..Len(collected_data)})
          /\ Range(output_file) \subseteq Range(collected_data))

\* a crawl that collected three pages has closed and written three lines,
\* in another order than the pages were collected in
C22_Witness ==
  /\ status = "closed"
  /\ Len(output_file) = 3
  /\ output_file # collected_data

\* C23: the merge run at close is not the scoring engine: what it writes is
\* the first record of each raw URL of the collection and nothing else, with
\* neither scores nor digests looked at, so it writes at least as many
\* records as the engine returns for the same list
C23_MergeKeepsFirstOfRawUrl ==
  tool = "merged" =>
    /\ \A i \in 1..Len(loaded_data) :
         (\E k \in 1..Len(deduplicated) : deduplicated[k] = loaded_data[i])
           <=> \E j \in 1..i :
                 /\ loaded_data[j] = loaded_data[i]
                 /\ \A l \in 1..(j - 1) : loaded_data[l].url # loaded_data[j].url
    /\ Range(deduplicated) \subseteq Range(loaded_data)
    /\ Len(deduplicated) = Cardinality({loaded_data[i].url : i \in 1..Len(loaded_data)})
    /\ Len(deduplicate_data(loaded_data)) <= Len(deduplicated)

\* two pages of the same content under two URLs: the merge writes both, the
\* engine returns the first
C23_Witness ==
  /\ tool = "merged"
  /\ loaded_data = <<RecB, RecA>>
  /\ deduplicated = <<RecA, RecB>>
  /\ deduplicate_data(loaded_data) = <<RecB>>

\* C23 as stated: the set the merge writes at close is the set the engine
\* returns for the same list
C23_MergeIsEngine ==
  tool = "merged" => Range(deduplicated) = Range(deduplicate_data(loaded_data))

\* the pages the anchors of a page lead to that the link loop follows and
\* that are in scope
LinkedFrom(page) ==
  {normalized[site[page][i]] :
     i \in {j \in 1..Len(site[page]) : followable(site[page][j]) /\ in_scope(site[page][j])}}

\* the pages reached from the seeds through at most n such links
RECURSIVE WithinLinks(_)
WithinLinks(n) ==
  IF n = 0 THEN seed_urls(start_urls)
  ELSE WithinLinks(n - 1) \cup UNION {LinkedFrom(page) : page \in WithinLinks(n - 1)}

\* the pages extracted so far
Extracted == {normalized[collected_data[i].url] : i \in 1..Len(collected_data)}

\* C24: whatever the order in which requests are answered and generators
\* resumed, when the crawl has closed every page reached from a seed through
\* at most max_depth in-scope links has been extracted
C24_ReachableExtracted ==
  status = "closed" =>
    WithinLinks(IF max_depth = None THEN Cardinality(Pages) ELSE max_depth)
      \subseteq Extracted

\* the URL has the first path segment of the first seed, or no rule applies
\* (filter depth 0, or a first seed without path segments)
InFirstSeedSection(u) ==
  \/ filter_depth = 0
  \/ parts_of[start_urls[1]] = <<>>
  \/ parts_of[u] # <<>> /\ parts_of[u][1] = parts_of[start_urls[1]][1]

\* C25: every collected record is the record of a seed or of a page in
\* scope under the rule derived from the first seed; a seed is fetched and
\* extracted whether it is in scope or not
C25_InScopeOrSeed ==
  \A i \in 1..Len(collected_data) :
    \/ InFirstSeedSection(collected_data[i].url)
    \/ normalized[collected_data[i].url] \in seed_urls(start_urls)

\* a crawl from two seeds has closed with the record of the seed outside the
\* first seed's section and the record of a page followed inside it
C25_Witness ==
  /\ status = "closed"
  /\ filter_depth = 1
  /\ \E i \in 1..Len(collected_data) : collected_data[i].url = UrlC
  /\ \E i \in 1..Len(collected_data) : collected_data[i].url = UrlB

\* C25 as stated: at close every collected record has a URL in scope under
\* the rule derived from the seed
C25_AllInScope ==
  status = "closed" =>
    \A i \in 1..Len(collected_data) : InFirstSeedSection(collected_data[i].url)

\* a step changes the counter and the collection together: a response
\* stopped by the cap check or by the depth check changes neither, a record
\* is appended only with a page counted, and a page is counted without a
\* record only when its extraction raised
C26_CountedWithRecord ==
  /\ \A req \in BagToSet(pending) :
       (Answers(req) /\ (pages_processed >= max_pages \/ AnswersTooDeep(req))) =>
         /\ pages_processed' = pages_processed
         /\ collected_data' = collected_data
  /\ collected_data' # collected_data =>
       /\ Len(collected_data') = Len(collected_data) + 1
       /\ pages_processed' = pages_processed + 1
  /\ pages_processed' # pages_processed =>
       /\ pages_processed' = pages_processed + 1
       /\ \/ Len(collected_data') = Len(collected_data) + 1
          \/ /\ collected_data' = collected_data
             /\ \E req \in BagToSet(pending) :
                  Answers(req) /\ normalized[req.url] \in broken

\* C26: in every reachable state the pages-processed counter equals the
\* number of records collected plus the number of pages whose extraction
\* raised: a response stopped by the cap check or by the depth check changes
\* neither, a response that passes both checks increases the counter by one,
\* and the collection by one record unless its extraction raises.
C26_CounterIsRecordsPlusFailures ==
  /\ [](pages_processed = Len(collected_data) + Cardinality(extract_failed))
  /\ [][C26_CountedWithRecord]_vars

\* a crawl has closed at the cap with a page counted whose extraction raised
\* and a response turned away
C26_Witness ==
  /\ status = "closed"
  /\ extract_failed = {UrlB}
  /\ cap_stopped > 0
  /\ pages_processed = max_pages
  /\ Len(collected_data) = max_pages - 1

\* C26 as stated: in every reachable state the pages-processed counter
\* equals the number of records collected
C26_CounterEqualsRecords == pages_processed = Len(collected_data)

\* a step leaves the collection as it is or appends one record to it, and
\* the step that runs the merge and closes the crawl leaves it as it is
C27_OnlyAppended ==
  /\ \/ collected_data' = collected_data
     \/ /\ Len(collected_data') = Len(collected_data) + 1
        /\ SubSeq(collected_data', 1, Len(collected_data)) = collected_data
        /\ status = "running" /\ status' = "running"
  /\ (merges' # merges \/ status' # status \/ output_file' # output_file) =>
       collected_data' = collected_data

\* C27: the collection is append-only during traversal (a step leaves every
\* record collected so far in its place and adds at most one record at the
\* end) and the merge at close only reads it: the step that dedups, sorts
\* and writes leaves the collection's contents and order unchanged
C27_MergeOnlyReads == [][C27_OnlyAppended]_vars

\* the merge has written a sorted file from a collection that is still in
\* the order of collection, which is not the sorted one
C27_Witness ==
  /\ status = "closed"
  /\ merges = 1
  /\ Len(collected_data) >= 2
  /\ ~SortedByUrl(collected_data)
  /\ SortedByUrl(output_file)
  /\ Len(output_file) = Len(collected_data)

\* the records of `list` that have the normalized URL of `url`
WithKeyOf(list, url) ==
  {k \in 1..Len(list) :
     has_url(list[k]) /\ dedupe_normalize_url(list[k].url) = dedupe_normalize_url(url)}

\* the smallest index of a non-empty set of indices
FirstOf(indices) == CHOOSE i \in indices : \A j \in indices : i <= j

\* C28: the list deduplicate_by_url returns is a sub-list of its input, in
\* input order and with no record altered; for each normalized URL of the
\* input it holds exactly one record, the first of the input with that
\* normalized URL; and it holds every record of the input that lacks a url
C28_FirstPerUrlInOrder ==
  tool = "simplified" =>
    /\ \E keep \in SUBSET (1..Len(loaded_data)) : deduplicated = Kept(loaded_data, keep)
    /\ \A i \in 1..Len(loaded_data) :
         has_url(loaded_data[i]) =>
           /\ Cardinality(WithKeyOf(deduplicated, loaded_data[i].url)) = 1
           /\ deduplicated[FirstOf(WithKeyOf(deduplicated, loaded_data[i].url))]
                = loaded_data[FirstOf(WithKeyOf(loaded_data, loaded_data[i].url))]
    /\ Cardinality({k \in 1..Len(deduplicated) : ~has_url(deduplicated[k])})
         = Cardinality({i \in 1..Len(loaded_data) : ~has_url(loaded_data[i])})

\* a list of a record without a url between two different records of one
\* normalized URL was reduced to the first of the two and the url-less one
C28_Witness ==
  /\ tool = "simplified"
  /\ loaded_data = <<RecAtables, RecNoUrl, RecA>>
  /\ deduplicated = <<RecAtables, RecNoUrl>>

\* the first path segment of a URL, <<>> when its path has none
FirstSegment(url) == IF path_parts(url) # <<>> THEN path_parts(url)[1] ELSE <<>>

\* the url is in the section of input_url: they have the same first path
\* segment, or input_url has none
InSectionOfInput(url) ==
  FirstSegment(input_url) = <<>> \/ FirstSegment(url) = FirstSegment(input_url)

\* the returned list is sorted by raw URL, holds records of the input only,
\* no two of them with the same normalized URL, and each of them with a url
\* is the first record of the input in the section of input_url with its
\* normalized URL
C29_SortedFirstInSection ==
  /\ SortedByUrl(deduplicated)
  /\ Range(deduplicated) \subseteq Range(loaded_data)
  /\ \A k \in 1..Len(deduplicated) :
       has_url(deduplicated[k]) =>
         /\ WithKeyOf(deduplicated, deduplicated[k].url) = {k}
         /\ \E i \in WithKeyOf(loaded_data, deduplicated[k].url) :
              InSectionOfInput(loaded_data[i].url)
         /\ deduplicated[k] =
              loaded_data[FirstOf({i \in WithKeyOf(loaded_data, deduplicated[k].url) :
                                     InSectionOfInput(loaded_data[i].url)})]

\* C29: the list deduplicate_by_url_compact returns is sorted by URL, no two
\* of its records share a normalized URL, and for each normalized URL the
\* kept record is the first record of the input with that URL that is in the
\* section of the input URL; when the input URL has a first path segment,
\* every returned record that has a url has that first path segment, and
\* when it has none no record is filtered out
C29_CompactInSection ==
  tool = "compacted" =>
    /\ C29_SortedFirstInSection
    /\ FirstSegment(input_url) # <<>> =>
         \A k \in 1..Len(deduplicated) :
           has_url(deduplicated[k]) =>
             FirstSegment(deduplicated[k].url) = FirstSegment(input_url)
    /\ \A i \in 1..Len(loaded_data) :
         (has_url(loaded_data[i]) /\ InSectionOfInput(loaded_data[i].url)) =>
           WithKeyOf(deduplicated, loaded_data[i].url) # {}

\* a list with a record of another section was filtered by the section of
\* /d4/a and sorted
C29_Witness ==
  /\ tool = "compacted"
  /\ input_url = UrlA
  /\ loaded_data = <<RecClong, RecB, RecA>>
  /\ deduplicated = <<RecA, RecB>>

\* C29 as stated: every returned record that has a url has a first path
\* segment equal to the first path segment of the input URL, whatever the
\* input URL
C29_AlwaysFirstSegmentOfInput ==
  tool = "compacted" =>
    /\ SortedByUrl(deduplicated)
    /\ \A k \in 1..Len(deduplicated) :
         has_url(deduplicated[k]) =>
           /\ FirstSegment(input_url) # <<>>
           /\ FirstSegment(deduplicated[k].url) = FirstSegment(input_url)
           /\ WithKeyOf(deduplicated, deduplicated[k].url) = {k}

====
